---- MODULE Spec2Model ----
(***************************************************************************)
(* Weighted DCTCP (wdctcp): the per-connection congestion controller of    *)
(* src/tcp_wdctcp.c as a state machine.                                    *)
(*                                                                         *)
(* A u32 of the C code is held as the integer of the same 32 bits read as  *)
(* two's complement (0 .. 2^31-1 are themselves, 2^31 .. 2^32-1 are        *)
(* -2^31 .. -1), so every operator below computes modulo 2^32 exactly and  *)
(* no intermediate value leaves the 32-bit range.                          *)
(***************************************************************************)
EXTENDS Integers, Sequences, FiniteSets, TLC

\* ------------------------------------------------------------------ u32

\* Largest and smallest 32-bit patterns read as signed integers.
S32_MAX == 2147483647
S32_MIN == -S32_MAX - 1

\* Unsigned comparisons of two u32 (a non-negative pattern is below every
\* negative one, which stands for a value >= 2^31).
ULt(a, b) ==
    IF (a >= 0) = (b >= 0) THEN a < b ELSE a >= 0

ULe(a, b) == a = b \/ ULt(a, b)

UMin(a, b) == IF ULt(b, a) THEN b ELSE a

UMax(a, b) == IF ULt(a, b) THEN b ELSE a

\* a + b modulo 2^32.
Add32(a, b) ==
    IF a >= 0 /\ b >= 0
      THEN IF a <= S32_MAX - b THEN a + b
           ELSE ((a - S32_MAX) + (b - S32_MAX)) - 2
      ELSE IF a < 0 /\ b < 0
        THEN IF a >= S32_MIN - b THEN a + b
             ELSE ((a + S32_MAX) + (b + S32_MAX)) + 2
        ELSE a + b

\* -a modulo 2^32 (the pattern 2^31 is its own negation).
Neg32(a) == IF a = S32_MIN THEN S32_MIN ELSE -a

\* a - b modulo 2^32.
Sub32(a, b) == Add32(a, Neg32(b))

\* a >> 1 (logical shift of the 32-bit pattern).
Shr1(a) ==
    IF a >= 0 THEN a \div 2
    ELSE (((a + S32_MAX) + 1) \div 2) + 1073741824

RECURSIVE Shr32(_, _)
\* a >> k for 0 <= k < 32.
Shr32(a, k) == IF k = 0 THEN a ELSE Shr32(Shr1(a), k - 1)

RECURSIVE Shl32(_, _)
\* a << k modulo 2^32 for 0 <= k < 32.
Shl32(a, k) == IF k = 0 THEN a ELSE Shl32(Add32(a, a), k - 1)

\* a * b modulo 2^32, by the 16-bit halves of a and the bytes of b: every
\* partial product stays below 2^24.
Mul32(a, b) ==
    LET al == a % 65536
        ah == (a \div 65536) % 65536
        b0 == b % 256
        b1 == (b \div 256) % 256
        b2 == (b \div 65536) % 256
        b3 == (b \div 16777216) % 256
        lo == ((al * b0) % 65536) + ((al * b1) % 256) * 256
        hi == ((lo \div 65536) + ((al * b0) \div 65536) + ((al * b1) \div 256)
               + (al * b2) + ((al * b3) % 256) * 256
               + (ah * b0) + ((ah * b1) % 256) * 256) % 65536
    IN  (IF hi >= 32768 THEN hi - 65536 ELSE hi) * 65536 + (lo % 65536)

\* a / b of two u32, b # 0 (C's unsigned division).
Div32(a, b) ==
    IF b < 0 THEN (IF ULt(a, b) THEN 0 ELSE 1)
    ELSE IF a >= 0 THEN a \div b
    ELSE LET h   == Shr1(a)
             bit == a % 2
             hq  == h \div b
             hr  == h % b
             q2  == Add32(hq, hq)
         IN  IF hr >= (b - hr) - bit THEN Add32(q2, 1) ELSE q2

\* before(seq1, seq2) of <net/tcp.h>: (s32)(seq1 - seq2) < 0.
before(seq1, seq2) == Sub32(seq1, seq2) < 0

\* ------------------------------------------------------- program constants

DCTCP_MAX_ALPHA == 1024

\* Module parameters as the source initialises them.
dctcp_shift_g_default == 4
dctcp_alpha_on_init_default == 1024
wdctcp_precision_default == 10000
wdctcp_weight_on_init_default == 10000

\* enum tcp_ca_event values the controller looks at, and one it ignores.
CA_EVENT_ECN_IS_CE == "CA_EVENT_ECN_IS_CE"
CA_EVENT_ECN_NO_CE == "CA_EVENT_ECN_NO_CE"
CA_EVENT_DELAYED_ACK == "CA_EVENT_DELAYED_ACK"
CA_EVENT_NON_DELAYED_ACK == "CA_EVENT_NON_DELAYED_ACK"
CA_EVENT_CWND_RESTART == "CA_EVENT_CWND_RESTART"

\* in_ack_event flags.
CA_ACK_WIN_UPDATE == "CA_ACK_WIN_UPDATE"
CA_ACK_ECE == "CA_ACK_ECE"

\* Socket states wdctcp_init tells apart, and an active one.
TCP_ESTABLISHED == "TCP_ESTABLISHED"
TCP_LISTEN == "TCP_LISTEN"
TCP_CLOSE == "TCP_CLOSE"
TCP_SYN_SENT == "TCP_SYN_SENT"

\* Congestion-avoidance machine states handed to set_state.
TCP_CA_Open == "TCP_CA_Open"
TCP_CA_Recovery == "TCP_CA_Recovery"
TCP_CA_Loss == "TCP_CA_Loss"

\* The two tcp_congestion_ops tables: the callbacks each one registers.
wdctcp == {"init", "release", "in_ack_event", "cwnd_event", "ssthresh",
           "cong_avoid", "set_state", "get_info"}

dctcp_reno == {"ssthresh", "cong_avoid", "get_info"}

\* The fields of struct wdctcp (the connection's private congestion state).
wdctcp_fields == {"acked_bytes_ecn", "acked_bytes_total", "prior_snd_una",
                  "prior_rcv_nxt", "dctcp_alpha", "next_seq", "ce_state",
                  "delayed_ack_reserved", "obj", "weight_acked_cnt"}

\* ------------------------------------------------------------- the state

VARIABLES
    par,    \* module parameters: dctcp_shift_g, dctcp_alpha_on_init,
            \* dctcp_clamp_alpha_on_loss, wdctcp_precision
    sk,     \* struct sock / inet_connection_sock: sk_state, icsk_ca_ops,
            \* ect (outbound ECT marking), rcv_mss, inited
    tp,     \* struct tcp_sock: snd_una, snd_nxt, rcv_nxt, ecn_ok, demand_cwr,
            \* snd_cwnd, snd_cwnd_cnt, snd_ssthresh, snd_cwnd_clamp
    ca,     \* struct wdctcp
    out,    \* the ACKs tcp_send_ack put on the wire during the last callback
    last,   \* the last callback: its name, its argument, the state it found
    wp,     \* the weight store of sysfs.c: its kset, its object and the
            \* object's reference count, allocations and frees so far
    env,    \* how far the peer and the stack have driven the connection
    acc,    \* bookkeeping of the additive-increase credit since init
    ref     \* a second copy of the connection, fed the same ACKs in one call

vars == <<par, sk, tp, ca, out, last, wp, env, acc, ref>>

\* ---------------------------------------------------------- the handlers

\* wdctcp_reset: a new observation window starts at the send frontier.
wdctcp_reset(t, c) ==
    [c EXCEPT !.next_seq = t.snd_nxt,
              !.acked_bytes_ecn = 0,
              !.acked_bytes_total = 0]

\* wdctcp_init_takes looking at the ECN capability alone.
wdctcp_init_takes_ecn_only(s, t) == t.ecn_ok

\* The condition under which wdctcp_init sets up DCTCP state.
wdctcp_init_takes(s, t) ==
    t.ecn_ok \/ (s.sk_state = TCP_LISTEN \/ s.sk_state = TCP_CLOSE)

\* wdctcp_init_alpha without the min(): the parameter stored as written.
wdctcp_init_alpha_unclamped(p) == p.dctcp_alpha_on_init

\* The initial alpha wdctcp_init stores.
wdctcp_init_alpha(p) == UMin(p.dctcp_alpha_on_init, DCTCP_MAX_ALPHA)

\* wdctcp_init, the branch that sets up DCTCP state: struct wdctcp after it.
\* obj and weight_acked_cnt are not assigned.
wdctcp_init_ca(p, t, c) ==
    wdctcp_reset(t, [c EXCEPT !.prior_snd_una = t.snd_una,
                              !.prior_rcv_nxt = t.rcv_nxt,
                              !.dctcp_alpha = wdctcp_init_alpha(p),
                              !.delayed_ack_reserved = 0,
                              !.ce_state = 0])

\* wdctcp_init, the fallback branch: the socket after it.
wdctcp_init_fallback(s) ==
    [s EXCEPT !.icsk_ca_ops = "dctcp_reno", !.ect = FALSE]

\* dctcp_ssthresh without the max(): the reduced window as computed.
dctcp_ssthresh_no_floor(t, c) ==
    Sub32(t.snd_cwnd, Shr32(Mul32(t.snd_cwnd, c.dctcp_alpha), 11))

\* dctcp_ssthresh: max(cwnd - ((cwnd * alpha) >> 11), 2) in u32 arithmetic.
dctcp_ssthresh(t, c) ==
    UMax(Sub32(t.snd_cwnd, Shr32(Mul32(t.snd_cwnd, c.dctcp_alpha), 11)), 2)

\* tcp_send_ack as the controller uses it: an ACK for tp->rcv_nxt whose
\* ECN-Echo bit is the socket's TCP_ECN_DEMAND_CWR flag.
tcp_send_ack(t) == [ack_seq |-> t.rcv_nxt, ece |-> t.demand_cwr]

\* dctcp_ce_state_0_to_1 testing only ce_state, not the pending delayed ACK.
dctcp_ce_state_0_to_1_unguarded(t, c) ==
    LET fire == c.ce_state = 0
        tmp_rcv_nxt == t.rcv_nxt
        t1 == [t EXCEPT !.demand_cwr = FALSE, !.rcv_nxt = c.prior_rcv_nxt]
        t2 == IF fire THEN [t1 EXCEPT !.rcv_nxt = tmp_rcv_nxt] ELSE t
    IN  [tp |-> [t2 EXCEPT !.demand_cwr = TRUE],
         ca |-> [c EXCEPT !.prior_rcv_nxt = t2.rcv_nxt, !.ce_state = 1],
         acks |-> IF fire THEN <<tcp_send_ack(t1)>> ELSE <<>>]

\* dctcp_ce_state_0_to_1 setting the demand flag before the previous ACK
\* is generated instead of after.
dctcp_ce_state_0_to_1_flag_early(t, c) ==
    LET fire == c.ce_state = 0 /\ c.delayed_ack_reserved # 0
        t1   == [t EXCEPT !.demand_cwr = FALSE, !.rcv_nxt = c.prior_rcv_nxt]
    IN  [tp |-> [t EXCEPT !.demand_cwr = ~fire],
         ca |-> [c EXCEPT !.prior_rcv_nxt = t.rcv_nxt, !.ce_state = 1],
         acks |-> IF fire THEN <<tcp_send_ack(t1)>> ELSE <<>>]

\* dctcp_ce_state_0_to_1: the new tcp_sock, struct wdctcp and the ACKs sent.
dctcp_ce_state_0_to_1(t, c) ==
    LET fire == c.ce_state = 0 /\ c.delayed_ack_reserved # 0
        tmp_rcv_nxt == t.rcv_nxt
        t1 == [t EXCEPT !.demand_cwr = FALSE, !.rcv_nxt = c.prior_rcv_nxt]
        t2 == IF fire THEN [t1 EXCEPT !.rcv_nxt = tmp_rcv_nxt] ELSE t
    IN  [tp |-> [t2 EXCEPT !.demand_cwr = TRUE],
         ca |-> [c EXCEPT !.prior_rcv_nxt = t2.rcv_nxt, !.ce_state = 1],
         acks |-> IF fire THEN <<tcp_send_ack(t1)>> ELSE <<>>]

\* dctcp_ce_state_1_to_0 sending the ACK without rewinding rcv_nxt first.
dctcp_ce_state_1_to_0_no_rewind(t, c) ==
    LET fire == c.ce_state # 0 /\ c.delayed_ack_reserved # 0
        t1 == [t EXCEPT !.demand_cwr = TRUE]
    IN  [tp |-> [t EXCEPT !.demand_cwr = FALSE],
         ca |-> [c EXCEPT !.prior_rcv_nxt = t.rcv_nxt, !.ce_state = 0],
         acks |-> IF fire THEN <<tcp_send_ack(t1)>> ELSE <<>>]

\* dctcp_ce_state_1_to_0: the new tcp_sock, struct wdctcp and the ACKs sent.
dctcp_ce_state_1_to_0(t, c) ==
    LET fire == c.ce_state # 0 /\ c.delayed_ack_reserved # 0
        tmp_rcv_nxt == t.rcv_nxt
        t1 == [t EXCEPT !.demand_cwr = TRUE, !.rcv_nxt = c.prior_rcv_nxt]
        t2 == IF fire THEN [t1 EXCEPT !.rcv_nxt = tmp_rcv_nxt] ELSE t
    IN  [tp |-> [t2 EXCEPT !.demand_cwr = FALSE],
         ca |-> [c EXCEPT !.prior_rcv_nxt = t2.rcv_nxt, !.ce_state = 0],
         acks |-> IF fire THEN <<tcp_send_ack(t1)>> ELSE <<>>]

\* dctcp_acked_bytes counting an ACK that only updates the window as well.
dctcp_acked_bytes_window_counted(s, t, c, flags) ==
    LET acked_bytes == Sub32(t.snd_una, c.prior_snd_una)
    IN  IF acked_bytes = 0 THEN s.rcv_mss ELSE acked_bytes

\* The bytes dctcp_update_alpha counts for one ACK.
dctcp_acked_bytes(s, t, c, flags) ==
    LET acked_bytes == Sub32(t.snd_una, c.prior_snd_una)
    IN  IF acked_bytes = 0 /\ CA_ACK_WIN_UPDATE \notin flags
          THEN s.rcv_mss ELSE acked_bytes

\* dctcp_new_alpha with the marked bytes scaled by 2^10 whatever g is.
dctcp_new_alpha_unscaled(p, c) ==
    LET g == p.dctcp_shift_g
        a == Add32(Sub32(c.dctcp_alpha, Shr32(c.dctcp_alpha, g)),
                   Div32(Shl32(c.acked_bytes_ecn, 10),
                         c.acked_bytes_total))
    IN  IF ULt(DCTCP_MAX_ALPHA, a) THEN DCTCP_MAX_ALPHA ELSE a

\* The alpha dctcp_update_alpha stores when the observation window ends.
dctcp_new_alpha(p, c) ==
    LET g == p.dctcp_shift_g
        a == Add32(Sub32(c.dctcp_alpha, Shr32(c.dctcp_alpha, g)),
                   Div32(Shl32(c.acked_bytes_ecn, 10 - g),
                         c.acked_bytes_total))
    IN  IF ULt(DCTCP_MAX_ALPHA, a) THEN DCTCP_MAX_ALPHA ELSE a

\* dctcp_expired comparing the sequence numbers as plain unsigned numbers.
dctcp_expired_unsigned(t, c) == ~ULt(t.snd_una, c.next_seq)

\* Whether dctcp_update_alpha finds the observation window expired.
dctcp_expired(t, c) == ~before(t.snd_una, c.next_seq)

\* dctcp_update_alpha (in_ack_event): struct wdctcp after it.
dctcp_update_alpha(p, s, t, c, flags) ==
    LET acked_bytes == dctcp_acked_bytes(s, t, c, flags)
        c1 == IF acked_bytes # 0
                THEN [c EXCEPT
                        !.acked_bytes_total = Add32(@, acked_bytes),
                        !.prior_snd_una = t.snd_una,
                        !.acked_bytes_ecn =
                            IF CA_ACK_ECE \in flags
                              THEN Add32(@, acked_bytes) ELSE @]
                ELSE c
        c2 == [c1 EXCEPT !.acked_bytes_total = IF @ = 0 THEN 1 ELSE @]
    IN  IF dctcp_expired(t, c1)
          THEN wdctcp_reset(t, [c2 EXCEPT !.dctcp_alpha = dctcp_new_alpha(p, c2)])
          ELSE c1

\* dctcp_state without the test of dctcp_clamp_alpha_on_loss.
dctcp_state_option_ignored(p, c, new_state) ==
    IF new_state = TCP_CA_Loss
      THEN [c EXCEPT !.dctcp_alpha = DCTCP_MAX_ALPHA]
      ELSE c

\* dctcp_state (set_state): struct wdctcp after it.
dctcp_state(p, c, new_state) ==
    IF p.dctcp_clamp_alpha_on_loss # 0 /\ new_state = TCP_CA_Loss
      THEN [c EXCEPT !.dctcp_alpha = DCTCP_MAX_ALPHA]
      ELSE c

\* dctcp_update_ack_reserved flipping the flag on either event.
dctcp_update_ack_reserved_toggle(c, ev) ==
    IF ev \in {CA_EVENT_DELAYED_ACK, CA_EVENT_NON_DELAYED_ACK}
      THEN [c EXCEPT !.delayed_ack_reserved = IF @ = 0 THEN 1 ELSE 0]
      ELSE c

\* dctcp_update_ack_reserved: struct wdctcp after it.
dctcp_update_ack_reserved(c, ev) ==
    CASE ev = CA_EVENT_DELAYED_ACK ->
           IF c.delayed_ack_reserved = 0
             THEN [c EXCEPT !.delayed_ack_reserved = 1] ELSE c
      [] ev = CA_EVENT_NON_DELAYED_ACK ->
           IF c.delayed_ack_reserved # 0
             THEN [c EXCEPT !.delayed_ack_reserved = 0] ELSE c
      [] OTHER -> c

\* dctcp_cwnd_event: the new tcp_sock, struct wdctcp and the ACKs sent.
dctcp_cwnd_event(t, c, ev) ==
    CASE ev = CA_EVENT_ECN_IS_CE -> dctcp_ce_state_0_to_1(t, c)
      [] ev = CA_EVENT_ECN_NO_CE -> dctcp_ce_state_1_to_0(t, c)
      [] ev \in {CA_EVENT_DELAYED_ACK, CA_EVENT_NON_DELAYED_ACK} ->
           [tp |-> t, ca |-> dctcp_update_ack_reserved(c, ev), acks |-> <<>>]
      [] OTHER -> [tp |-> t, ca |-> c, acks |-> <<>>]

\* tcp_slow_start of the stack: the window grows by the acked segments up to
\* snd_ssthresh; the segments left over are returned.
tcp_slow_start(t, acked) ==
    LET cwnd == UMin(Add32(t.snd_cwnd, acked), t.snd_ssthresh)
    IN  [tp    |-> [t EXCEPT !.snd_cwnd = UMin(cwnd, t.snd_cwnd_clamp)],
         acked |-> Sub32(acked, Sub32(cwnd, t.snd_cwnd))]

\* The credits taken only from an accumulator above the precision.
weight_acked_delta_above(p, wac) ==
    IF ULt(p.wdctcp_precision, wac) THEN Div32(wac, p.wdctcp_precision) ELSE 0

\* One credit per call at most: the precision subtracted once.
weight_acked_delta_one(p, wac) ==
    IF ULe(p.wdctcp_precision, wac) THEN 1 ELSE 0

\* The credits wdctcp_cong_avoid_ai moves out of the weight accumulator.
weight_acked_delta(p, wac) ==
    IF ULe(p.wdctcp_precision, wac) THEN Div32(wac, p.wdctcp_precision) ELSE 0

\* The accumulator with nothing carried over: the remainder discarded.
weight_acked_rest_dropped(p, wac, delta) == 0

\* What wdctcp_cong_avoid_ai leaves in weight_acked_cnt after moving delta
\* credits out of it.
weight_acked_rest(p, wac, delta) == Sub32(wac, Mul32(delta, p.wdctcp_precision))

\* At most one segment of growth per call, as in the stock additive increase.
snd_cwnd_delta_one(cnt, w) == IF ULe(w, cnt) THEN 1 ELSE 0

\* The segments wdctcp_cong_avoid_ai adds to the window for cnt credits.
snd_cwnd_delta(cnt, w) == IF ULe(w, cnt) THEN Div32(cnt, w) ELSE 0

\* The credit left banked in full after the window has grown by it.
snd_cwnd_cnt_kept(cnt, grow, w) == cnt

\* What wdctcp_cong_avoid_ai leaves in snd_cwnd_cnt after growing the window
\* by grow segments.
snd_cwnd_cnt_rest(cnt, grow, w) == Sub32(cnt, Mul32(grow, w))

\* The window left as computed, above the clamp if it got there.
snd_cwnd_unclamped(cwnd, clamp) == cwnd

\* The last statement of wdctcp_cong_avoid_ai.
snd_cwnd_clamped(cwnd, clamp) == UMin(cwnd, clamp)

\* wdctcp_cong_avoid_ai; delta is the credit it moved out of the weight
\* accumulator into snd_cwnd_cnt.
wdctcp_cong_avoid_ai(p, t, c, w, weight, acked) ==
    LET t1    == IF ULe(w, t.snd_cwnd_cnt)
                   THEN [t EXCEPT !.snd_cwnd_cnt = 0,
                                  !.snd_cwnd = Add32(@, 1)]
                   ELSE t
        wac   == Add32(c.weight_acked_cnt, Mul32(weight, acked))
        delta == weight_acked_delta(p, wac)
        cnt   == Add32(t1.snd_cwnd_cnt, delta)
        grow  == snd_cwnd_delta(cnt, w)
    IN  [tp    |-> [t1 EXCEPT
                      !.snd_cwnd_cnt = snd_cwnd_cnt_rest(cnt, grow, w),
                      !.snd_cwnd = snd_cwnd_clamped(Add32(t1.snd_cwnd, grow),
                                                    t.snd_cwnd_clamp)],
         ca    |-> [c EXCEPT
                      !.weight_acked_cnt = weight_acked_rest(p, wac, delta)],
         ai    |-> TRUE,
         acked |-> acked,
         delta |-> delta]

\* wdctcp_cong_avoid_limited passing on the whole of acked after slow start.
wdctcp_cong_avoid_limited_whole(p, t, c, limited, weight, acked) ==
    LET ss   == IF ULe(t.snd_cwnd, t.snd_ssthresh)
                  THEN tcp_slow_start(t, acked)
                  ELSE [tp |-> t, acked |-> acked]
        done == [tp |-> ss.tp, ca |-> c, ai |-> FALSE, acked |-> 0,
                 delta |-> 0]
    IN  IF ULe(t.snd_cwnd, t.snd_ssthresh) /\ ss.acked = 0
          THEN done
          ELSE wdctcp_cong_avoid_ai(p, ss.tp, c, ss.tp.snd_cwnd, weight,
                                    acked)

\* wdctcp_cong_avoid once the connection is known to be window-limited.
wdctcp_cong_avoid_limited(p, t, c, limited, weight, acked) ==
    LET ss   == IF ULe(t.snd_cwnd, t.snd_ssthresh)
                  THEN tcp_slow_start(t, acked)
                  ELSE [tp |-> t, acked |-> acked]
        done == [tp |-> ss.tp, ca |-> c, ai |-> FALSE, acked |-> 0,
                 delta |-> 0]
    IN  IF ULe(t.snd_cwnd, t.snd_ssthresh) /\ ss.acked = 0
          THEN done
          ELSE wdctcp_cong_avoid_ai(p, ss.tp, c, ss.tp.snd_cwnd, weight,
                                    ss.acked)

\* wdctcp_cong_avoid without its first test: every call updates.
wdctcp_cong_avoid_unguarded(p, t, c, limited, weight, acked) ==
    wdctcp_cong_avoid_limited(p, t, c, limited, weight, acked)

\* wdctcp_cong_avoid; limited is the answer of tcp_is_cwnd_limited and weight
\* the value read through ca->obj.
wdctcp_cong_avoid(p, t, c, limited, weight, acked) ==
    IF ~limited
      THEN [tp |-> t, ca |-> c, ai |-> FALSE, acked |-> 0, delta |-> 0]
      ELSE wdctcp_cong_avoid_limited(p, t, c, limited, weight, acked)

\* tcp_cong_avoid_ai of the stack, the additive increase of the Reno
\* operations: acked is added to snd_cwnd_cnt directly.
tcp_cong_avoid_ai(t, w, acked) ==
    LET t1   == IF ULe(w, t.snd_cwnd_cnt)
                  THEN [t EXCEPT !.snd_cwnd_cnt = 0,
                                 !.snd_cwnd = Add32(@, 1)]
                  ELSE t
        cnt  == Add32(t1.snd_cwnd_cnt, acked)
        grow == IF ULe(w, cnt) THEN Div32(cnt, w) ELSE 0
    IN  [t1 EXCEPT !.snd_cwnd_cnt = Sub32(cnt, Mul32(grow, w)),
                   !.snd_cwnd = UMin(Add32(t1.snd_cwnd, grow),
                                     t.snd_cwnd_clamp)]

\* tcp_reno_cong_avoid of the stack (.cong_avoid of dctcp_reno).
tcp_reno_cong_avoid(t, limited, acked) ==
    LET ss == IF ULe(t.snd_cwnd, t.snd_ssthresh)
                THEN tcp_slow_start(t, acked)
                ELSE [tp |-> t, acked |-> acked]
    IN  IF ~limited THEN t
        ELSE IF ULe(t.snd_cwnd, t.snd_ssthresh) /\ ss.acked = 0 THEN ss.tp
        ELSE tcp_cong_avoid_ai(ss.tp, ss.tp.snd_cwnd, ss.acked)

\* ------------------------------------------------------------- bounds

\* Bytes per segment the peer sends and acknowledges (also icsk_ack.rcv_mss).
SegBytes == 1000
\* Segments the connection sends in a run.
MaxSent == 1
\* Segments the connection receives in a run.
MaxRcvd == 2
\* in_ack_event calls in a run.
MaxAcks == 3
\* Objects the weight store allocates in a run.
MaxLoads == 2
\* Segments one cong_avoid call acknowledges.
MaxAcked == 2
\* Segments of the batch that is delivered whole and in parts.
MaxBatch == 15

\* ------------------------------------------------------ initial states

\* Private congestion state of a socket no controller has initialised yet.
ca_fresh ==
    [acked_bytes_ecn |-> 0, acked_bytes_total |-> 0, prior_snd_una |-> 0,
     prior_rcv_nxt |-> 0, dctcp_alpha |-> 0, next_seq |-> 0, ce_state |-> 0,
     delayed_ack_reserved |-> 0, obj |-> "NULL", weight_acked_cnt |-> 0]

\* A socket the stack has just given the wdctcp operations: ECT was set for
\* the handshake, init has not run.
sk_fresh(state) ==
    [sk_state |-> state, icsk_ca_ops |-> "wdctcp", ect |-> TRUE,
     rcv_mss |-> SegBytes, inited |-> FALSE]

\* Its tcp_sock: nothing in flight, the stack's initial window.
tp_fresh(iss, irs, ecn) ==
    [snd_una |-> iss, snd_nxt |-> iss, rcv_nxt |-> irs, ecn_ok |-> ecn,
     demand_cwr |-> FALSE, snd_cwnd |-> 10, snd_cwnd_cnt |-> 0,
     snd_ssthresh |-> S32_MAX, snd_cwnd_clamp |-> 65535]

par_default ==
    [dctcp_shift_g |-> dctcp_shift_g_default,
     dctcp_alpha_on_init |-> dctcp_alpha_on_init_default,
     dctcp_clamp_alpha_on_loss |-> 0,
     wdctcp_precision |-> wdctcp_precision_default]

last_none == [op |-> "none", arg |-> "none", pre |-> "none"]

\* The state a callback finds, kept in `last` for the properties.
Pre == [sk |-> sk, tp |-> tp, ca |-> ca, wp |-> wp]

Called(op, arg) == last' = [op |-> op, arg |-> arg, pre |-> Pre]

\* The weight store before its module is loaded.
wp_none == [kset |-> FALSE, obj |-> "NULL", kref |-> 0, allocs |-> 0, frees |-> 0]
env_none == [sent |-> 0, rcvd |-> 0, acks |-> 0]
\* The additive-increase ledger: the sum of weight * acked over the calls
\* as quotient q and remainder r by the precision, the credit moved into
\* snd_cwnd_cnt, and whether every step so far fitted in 32 bits.
acc_none == [q |-> 0, r |-> 0, credit |-> 0, exact |-> TRUE]
ref_none == "none"

\* Initial sequence numbers: zero, and just below the 32-bit wrap.
InitialSeqs == {0, Neg32(SegBytes)}

\* Values an operator may have written to dctcp_alpha_on_init.
AlphaOnInit == {dctcp_alpha_on_init_default, 4000}

\* Connections of every ECN capability, under every parameter setting.
Init ==
    /\ \E a \in AlphaOnInit, cl \in {0, 1} :
         par = [par_default EXCEPT !.dctcp_alpha_on_init = a,
                                   !.dctcp_clamp_alpha_on_loss = cl]
    /\ \E ecn \in BOOLEAN, iss \in InitialSeqs :
         /\ sk = sk_fresh(TCP_ESTABLISHED)
         /\ tp = tp_fresh(iss, iss, ecn)
    /\ ca = ca_fresh
    /\ out = <<>>
    /\ last = last_none
    /\ wp = wp_none
    /\ env = env_none
    /\ acc = acc_none
    /\ ref = ref_none

\* -------------------------------------------------------------- actions

\* The callbacks of the operations table the socket currently uses.
Has(op) ==
    op \in (IF sk.icsk_ca_ops = "wdctcp" THEN wdctcp ELSE dctcp_reno)

\* wdctcp_init: the stack calls .init on a socket using the wdctcp table.
wdctcp_init ==
    /\ Has("init")
    /\ Called("init", "none")
    /\ IF wdctcp_init_takes(sk, tp)
         THEN /\ ca' = wdctcp_init_ca(par, tp, ca)
              /\ sk' = [sk EXCEPT !.inited = TRUE]
         ELSE /\ ca' = ca
              /\ sk' = wdctcp_init_fallback(sk)
    /\ out' = <<>>
    /\ UNCHANGED <<par, tp, wp, env, acc, ref>>

\* kobject_put on the store's object: the last reference frees it
\* (wvcc_release).
kobject_put(w) ==
    [w EXCEPT !.kref = @ - 1,
              !.frees = IF w.kref = 1 THEN @ + 1 ELSE @,
              !.obj = IF w.kref = 1 THEN "NULL" ELSE @]

\* create_wdctcp_obj: the store after it, for each way it can end.
create_wdctcp_obj(w, outcome) ==
    CASE outcome = "kzalloc_failed" -> w
      [] outcome = "add_failed" ->
           kobject_put([w EXCEPT !.allocs = @ + 1, !.kref = 1, !.obj = "foo"])
      [] OTHER -> [w EXCEPT !.allocs = @ + 1, !.kref = 1, !.obj = "foo"]

\* destroy_wdctcp_obj: drops the reference create_wdctcp_obj returned.
destroy_wdctcp_obj(w) == kobject_put(w)

\* A release callback that puts the store's object.
wdctcp_release_puts(w) == IF w.obj = "NULL" THEN w ELSE kobject_put(w)

\* What wdctcp_release does to the weight store: its body is empty.
wdctcp_release_wp(w) == w

\* wdctcp_release: the stack calls .release.
wdctcp_release ==
    /\ Has("release")
    /\ Called("release", "none")
    /\ wp' = wdctcp_release_wp(wp)
    /\ out' = <<>>
    /\ UNCHANGED <<par, sk, tp, ca, env, acc, ref>>

\* in_ack_event: an ACK arrived; the stack has advanced snd_una by n
\* segments (none for a duplicate ACK or a window update) before the call.
in_ack_event ==
    /\ Has("in_ack_event") /\ sk.inited
    /\ env.acks < MaxAcks
    /\ \E n \in 0 .. MaxSent, flags \in SUBSET {CA_ACK_ECE, CA_ACK_WIN_UPDATE} :
         LET una == Add32(tp.snd_una, n * SegBytes)
             t   == [tp EXCEPT !.snd_una = una]
         IN  /\ ~before(tp.snd_nxt, una)
             /\ Called("in_ack_event", [acked |-> n * SegBytes, flags |-> flags])
             /\ tp' = t
             /\ ca' = dctcp_update_alpha(par, sk, t, ca, flags)
    /\ env' = [env EXCEPT !.acks = @ + 1]
    /\ out' = <<>>
    /\ UNCHANGED <<par, sk, wp, acc, ref>>

\* cwnd_event: the stack reports an event of the connection.
cwnd_event ==
    /\ Has("cwnd_event") /\ sk.inited
    /\ \E ev \in {CA_EVENT_ECN_IS_CE, CA_EVENT_ECN_NO_CE, CA_EVENT_DELAYED_ACK,
                  CA_EVENT_NON_DELAYED_ACK, CA_EVENT_CWND_RESTART} :
         LET r == dctcp_cwnd_event(tp, ca, ev)
         IN  /\ Called("cwnd_event", ev)
             /\ tp' = r.tp
             /\ ca' = r.ca
             /\ out' = r.acks
    /\ UNCHANGED <<par, sk, wp, env, acc, ref>>

\* set_state: the stack moves the congestion-avoidance machine.
set_state ==
    /\ Has("set_state") /\ sk.inited
    /\ \E new_state \in {TCP_CA_Open, TCP_CA_Recovery, TCP_CA_Loss} :
         /\ Called("set_state", new_state)
         /\ ca' = dctcp_state(par, ca, new_state)
    /\ out' = <<>>
    /\ UNCHANGED <<par, sk, tp, wp, env, acc, ref>>

\* The stack sends one more segment: the send frontier advances.
tcp_xmit ==
    /\ env.sent < MaxSent
    /\ tp' = [tp EXCEPT !.snd_nxt = Add32(@, SegBytes)]
    /\ env' = [env EXCEPT !.sent = @ + 1]
    /\ last' = last_none
    /\ out' = <<>>
    /\ UNCHANGED <<par, sk, ca, wp, acc, ref>>

\* The stack receives one more segment: the receive pointer advances.
tcp_rcv ==
    /\ env.rcvd < MaxRcvd
    /\ tp' = [tp EXCEPT !.rcv_nxt = Add32(@, SegBytes)]
    /\ env' = [env EXCEPT !.rcvd = @ + 1]
    /\ last' = last_none
    /\ out' = <<>>
    /\ UNCHANGED <<par, sk, ca, wp, acc, ref>>

\* Weights read through ca->obj: fractions and multiples of the precision,
\* and values whose products leave 31 and 32 bits.
Weights == {5000, 15000, 1073741824, -1}

\* The unsigned value of x divided by d, in unbounded arithmetic.
UQuot(x, d) ==
    IF x >= 0 THEN x \div d
    ELSE LET h == Shr1(x)
         IN  2 * (h \div d) + ((2 * (h % d) + (x % 2)) \div d)

\* The unsigned value of x modulo d, in unbounded arithmetic.
URem(x, d) ==
    IF x >= 0 THEN x % d
    ELSE (2 * (Shr1(x) % d) + (x % 2)) % d

\* The ledger after an additive-increase call that read weight, was given
\* acked segments and moved delta credits.
Ledger(a, p, c, weight, acked, delta) ==
    LET prod == Mul32(weight, acked)
        fits == /\ acked = 0 \/ Div32(prod, acked) = weight
                /\ ~ULt(Add32(c.weight_acked_cnt, prod), prod)
        rest == a.r + URem(prod, p.wdctcp_precision)
    IN  IF a.exact /\ fits
          THEN [q      |-> a.q + UQuot(prod, p.wdctcp_precision)
                              + (rest \div p.wdctcp_precision),
                r      |-> rest % p.wdctcp_precision,
                credit |-> a.credit + delta,
                exact  |-> TRUE]
          ELSE [a EXCEPT !.exact = FALSE]

\* cong_avoid: an ACK acknowledged new segments.
cong_avoid ==
    /\ Has("cong_avoid") /\ sk.inited
    /\ env.acks < MaxAcks
    /\ \E limited \in BOOLEAN, acked \in 0 .. MaxAcked, weight \in Weights :
         LET r == wdctcp_cong_avoid(par, tp, ca, limited, weight, acked)
         IN  /\ Called("cong_avoid", [limited |-> limited, acked |-> acked,
                                      weight |-> weight, ai |-> r.ai,
                                      left |-> r.acked])
             /\ tp' = r.tp
             /\ ca' = r.ca
             /\ acc' = IF r.ai
                         THEN Ledger(acc, par, ca, weight, r.acked, r.delta)
                         ELSE acc
    /\ env' = [env EXCEPT !.acks = @ + 1]
    /\ out' = <<>>
    /\ UNCHANGED <<par, sk, wp, ref>>

\* cong_avoid for the next part of a batch: some of the segments still to
\* be acknowledged, on a window-limited connection.
cong_avoid_part ==
    /\ Has("cong_avoid") /\ sk.inited
    /\ env.left > 0
    /\ \E acked \in 1 .. env.left :
         LET r == wdctcp_cong_avoid(par, tp, ca, TRUE, env.weight, acked)
         IN  /\ tp' = r.tp
             /\ ca' = r.ca
             /\ env' = [env EXCEPT !.left = @ - acked, !.calls = @ + 1]
    /\ out' = <<>>
    /\ UNCHANGED <<par, sk, last, wp, acc, ref>>

\* cong_avoid for the whole batch at once, on a second connection that
\* started in the same state.
cong_avoid_whole ==
    /\ Has("cong_avoid") /\ sk.inited
    /\ ~ref.done
    /\ LET r == wdctcp_cong_avoid(par, ref.tp, ref.ca, TRUE, env.weight,
                                  env.total)
       IN  ref' = [tp |-> r.tp, ca |-> r.ca, done |-> TRUE]
    /\ out' = <<>>
    /\ UNCHANGED <<par, sk, tp, ca, last, wp, env, acc>>

\* Segments one ACK can acknowledge: none, a few, and a stretch ACK for
\* more segments than 2^32 / wdctcp_precision.
NominalAcked == {0, 1, 3, 429497}

\* A stretch ACK acknowledges no more segments than the window holds.
\* cong_avoid on a connection whose weight is the precision, and
\* tcp_reno_cong_avoid for the same ACK on a second connection that started
\* in the same state.
cong_avoid_nominal ==
    /\ Has("cong_avoid") /\ sk.inited
    /\ env.acks < MaxAcks
    /\ \E limited \in BOOLEAN,
          acked \in {a \in NominalAcked : a <= 3 \/ ULe(a, tp.snd_cwnd)} :
         LET weight == par.wdctcp_precision
             r      == wdctcp_cong_avoid(par, tp, ca, limited, weight, acked)
             prod   == Mul32(weight, r.acked)
         IN  /\ Called("cong_avoid", [limited |-> limited, acked |-> acked,
                                      weight |-> weight])
             /\ tp' = r.tp
             /\ ca' = r.ca
             /\ ref' = [tp |-> tcp_reno_cong_avoid(ref.tp, limited, acked)]
             /\ env' = [env EXCEPT
                          !.acks = @ + 1,
                          !.fits = @ /\ (~r.ai \/ r.acked = 0
                                         \/ Div32(prod, r.acked) = weight)]
    /\ out' = <<>>
    /\ UNCHANGED <<par, sk, wp, acc>>

\* ssthresh: the stack asks for the threshold on a congestion event and
\* stores the answer as snd_ssthresh.
ssthresh ==
    /\ Has("ssthresh") /\ sk.inited
    /\ Called("ssthresh", "none")
    /\ tp' = [tp EXCEPT !.snd_ssthresh = dctcp_ssthresh(tp, ca)]
    /\ out' = <<>>
    /\ UNCHANGED <<par, sk, ca, wp, env, acc, ref>>

\* example_init of sysfs.c: the kset, then the object "foo"; a failure
\* unloads the module again.
example_init ==
    /\ ~wp.kset
    /\ wp.allocs < MaxLoads
    /\ \E outcome \in {"kset_failed", "kzalloc_failed", "add_failed", "ok"} :
         wp' = IF outcome = "kset_failed" THEN wp
               ELSE LET w == create_wdctcp_obj(wp, outcome)
                    IN  [w EXCEPT !.kset = (w.obj # "NULL")]
    /\ last' = last_none
    /\ out' = <<>>
    /\ UNCHANGED <<par, sk, tp, ca, env, acc, ref>>

\* example_exit of sysfs.c.
example_exit ==
    /\ wp.kset
    /\ wp' = [destroy_wdctcp_obj(wp) EXCEPT !.kset = FALSE]
    /\ last' = last_none
    /\ out' = <<>>
    /\ UNCHANGED <<par, sk, tp, ca, env, acc, ref>>

\* ------------------------------------------------- the ACK-side machine

Next ==
    \/ wdctcp_init
    \/ in_ack_event
    \/ cwnd_event
    \/ set_state
    \/ tcp_xmit

Spec == Init /\ [][Next]_vars

\* C1: whenever the controller is initialised, 0 <= alpha <= 1024, whatever
\* init, in_ack_event, cwnd_event and set_state calls came before and whatever
\* value dctcp_alpha_on_init holds.
C1_AlphaBound ==
    sk.inited => ULe(0, ca.dctcp_alpha) /\ ULe(ca.dctcp_alpha, DCTCP_MAX_ALPHA)

\* C1's case: the configured initial alpha exceeds 1024 and an observation
\* window has ended after init, with the estimate at its upper bound.
C1_Witness ==
    /\ sk.inited
    /\ ULt(DCTCP_MAX_ALPHA, par.dctcp_alpha_on_init)
    /\ last.op = "in_ack_event"
    /\ last.pre.ca.next_seq # ca.next_seq
    /\ ca.dctcp_alpha = DCTCP_MAX_ALPHA

\* C11: set_state stores alpha = 1024 exactly when the new state is
\* TCP_CA_Loss and dctcp_clamp_alpha_on_loss is set; in every other case it
\* leaves alpha and the rest of the congestion state unchanged; it never
\* touches the socket or the window.
C11_ClampOnLoss ==
    last.op = "set_state" =>
        /\ ca = IF par.dctcp_clamp_alpha_on_loss # 0 /\ last.arg = TCP_CA_Loss
                  THEN [last.pre.ca EXCEPT !.dctcp_alpha = 1024]
                  ELSE last.pre.ca
        /\ tp = last.pre.tp
        /\ sk = last.pre.sk

\* C11's case: a loss with the option set, on an estimate below 1024.
C11_Witness ==
    /\ last.op = "set_state"
    /\ last.arg = TCP_CA_Loss
    /\ par.dctcp_clamp_alpha_on_loss = 1
    /\ last.pre.ca.dctcp_alpha = 960
    /\ ca.dctcp_alpha = 1024

\* C11's case: a loss with the option clear, on an estimate below 1024.
C11_WitnessDisabled ==
    /\ last.op = "set_state"
    /\ last.arg = TCP_CA_Loss
    /\ par.dctcp_clamp_alpha_on_loss = 0
    /\ ca.dctcp_alpha = 960

\* ------------------------------------------------ the receive-side machine

InitCE ==
    /\ par = par_default
    /\ \E irs \in InitialSeqs :
         /\ sk = sk_fresh(TCP_ESTABLISHED)
         /\ tp = tp_fresh(0, irs, TRUE)
    /\ ca = ca_fresh
    /\ out = <<>>
    /\ last = last_none
    /\ wp = wp_none
    /\ env = env_none
    /\ acc = acc_none
    /\ ref = ref_none

NextCE ==
    \/ wdctcp_init
    \/ cwnd_event
    \/ tcp_rcv

SpecCE == InitCE /\ [][NextCE]_vars

\* The last callback was an ECN event that changed ce_state while a delayed
\* ACK was pending.
CeFlipPending ==
    /\ last.op = "cwnd_event"
    /\ last.pre.ca.delayed_ack_reserved # 0
    /\ \/ last.arg = CA_EVENT_ECN_IS_CE /\ last.pre.ca.ce_state = 0
       \/ last.arg = CA_EVENT_ECN_NO_CE /\ last.pre.ca.ce_state # 0

\* C4: an ECN-is-CE event in state NotCE, or an ECN-no-CE event in state CE,
\* with a delayed ACK pending emits exactly one ACK; it carries the CE flag of
\* before the event and acknowledges prior_rcv_nxt; afterwards rcv_nxt is what
\* it was before the event and prior_rcv_nxt equals it.
C4_SyntheticAck ==
    CeFlipPending =>
        /\ Len(out) = 1
        /\ out[1].ece = (last.pre.ca.ce_state # 0)
        /\ out[1].ack_seq = last.pre.ca.prior_rcv_nxt
        /\ tp.rcv_nxt = last.pre.tp.rcv_nxt
        /\ ca.prior_rcv_nxt = tp.rcv_nxt

\* C4's case: the ACK was emitted for a point behind the receive pointer.
C4_Witness ==
    /\ CeFlipPending
    /\ Len(out) = 1
    /\ out[1].ack_seq # tp.rcv_nxt
    /\ out[1].ece

\* C5: an ACK is emitted only by an ECN-is-CE / ECN-no-CE event that changes
\* ce_state while a delayed ACK is pending; every other callback emits none.
C5_NoSpuriousAck ==
    (Len(out) > 0) =>
        /\ last.op = "cwnd_event"
        /\ last.arg \in {CA_EVENT_ECN_IS_CE, CA_EVENT_ECN_NO_CE}
        /\ last.pre.ca.delayed_ack_reserved # 0
        /\ last.pre.ca.ce_state # ca.ce_state

\* C5's case: ce_state changed with no delayed ACK pending and nothing was sent.
C5_Witness ==
    /\ last.op = "cwnd_event"
    /\ last.arg = CA_EVENT_ECN_NO_CE
    /\ last.pre.ca.ce_state # ca.ce_state
    /\ last.pre.ca.delayed_ack_reserved = 0
    /\ out = <<>>

\* C16: after an ECN-is-CE event ce_state is 1 and the connection demands
\* ECN-Echo, after an ECN-no-CE event ce_state is 0 and the demand is
\* cleared; either way prior_rcv_nxt is the current rcv_nxt, which the event
\* does not move.
C16_CeState ==
    (last.op = "cwnd_event"
     /\ last.arg \in {CA_EVENT_ECN_IS_CE, CA_EVENT_ECN_NO_CE}) =>
        /\ ca.ce_state = IF last.arg = CA_EVENT_ECN_IS_CE THEN 1 ELSE 0
        /\ tp.demand_cwr = (last.arg = CA_EVENT_ECN_IS_CE)
        /\ ca.prior_rcv_nxt = tp.rcv_nxt
        /\ tp.rcv_nxt = last.pre.tp.rcv_nxt

\* C16's case: the flip to CE with a delayed ACK pending and data received
\* since the last event, so that the previous ACK is generated first.
C16_Witness ==
    /\ last.op = "cwnd_event"
    /\ last.arg = CA_EVENT_ECN_IS_CE
    /\ last.pre.ca.ce_state = 0
    /\ last.pre.ca.delayed_ack_reserved = 1
    /\ last.pre.ca.prior_rcv_nxt # last.pre.tp.rcv_nxt
    /\ Len(out) = 1
    /\ tp.demand_cwr

\* C16's case: an ECN-no-CE event that finds ce_state already 0.
C16_WitnessNoChange ==
    /\ last.op = "cwnd_event"
    /\ last.arg = CA_EVENT_ECN_NO_CE
    /\ last.pre.ca.ce_state = 0
    /\ last.pre.ca.prior_rcv_nxt # last.pre.tp.rcv_nxt
    /\ ca.prior_rcv_nxt = tp.rcv_nxt

\* C17: a delayed-ACK event leaves delayed_ack_reserved at 1 and a
\* non-delayed-ACK event leaves it at 0, whatever it was; neither changes
\* anything else of the congestion state or the socket, nor sends an ACK;
\* the ECN events never change delayed_ack_reserved.
C17_AckReserved ==
    last.op = "cwnd_event" =>
        /\ last.arg = CA_EVENT_DELAYED_ACK =>
              /\ ca = [last.pre.ca EXCEPT !.delayed_ack_reserved = 1]
              /\ tp = last.pre.tp
              /\ out = <<>>
        /\ last.arg = CA_EVENT_NON_DELAYED_ACK =>
              /\ ca = [last.pre.ca EXCEPT !.delayed_ack_reserved = 0]
              /\ tp = last.pre.tp
              /\ out = <<>>
        /\ last.arg \in {CA_EVENT_ECN_IS_CE, CA_EVENT_ECN_NO_CE} =>
              ca.delayed_ack_reserved = last.pre.ca.delayed_ack_reserved

\* C17's case: arming while armed, in CE state with data received since.
C17_Witness ==
    /\ last.op = "cwnd_event"
    /\ last.arg = CA_EVENT_DELAYED_ACK
    /\ last.pre.ca.delayed_ack_reserved = 1
    /\ last.pre.ca.ce_state = 1
    /\ ca.prior_rcv_nxt # tp.rcv_nxt
    /\ ca = last.pre.ca

\* C17's case: an ECN event while a delayed ACK is pending leaves it pending.
C17_WitnessEcn ==
    /\ last.op = "cwnd_event"
    /\ last.arg = CA_EVENT_ECN_IS_CE
    /\ Len(out) = 1
    /\ ca.delayed_ack_reserved = 1

\* ------------------------------------------------ init and release

\* Sockets in every state, with and without ECN negotiated.
InitLife ==
    /\ \E a \in AlphaOnInit :
         par = [par_default EXCEPT !.dctcp_alpha_on_init = a]
    /\ \E state \in {TCP_ESTABLISHED, TCP_SYN_SENT, TCP_LISTEN, TCP_CLOSE},
          ecn \in BOOLEAN, iss \in InitialSeqs :
         /\ sk = sk_fresh(state)
         /\ tp = tp_fresh(iss, 0, ecn)
    /\ ca = ca_fresh
    /\ out = <<>>
    /\ last = last_none
    /\ wp = wp_none
    /\ env = env_none
    /\ acc = acc_none
    /\ ref = ref_none

NextLife ==
    \/ wdctcp_init
    \/ wdctcp_release
    \/ example_init
    \/ example_exit

SpecLife == InitLife /\ [][NextLife]_vars

\* The fallback: Reno operations, no weight handle, no outbound ECT marking.
FellBack ==
    /\ sk.icsk_ca_ops = "dctcp_reno"
    /\ ca.obj = "NULL"
    /\ ~sk.ect

\* C7 as stated: init falls back on every connection without ECN and on every
\* connection in LISTEN or CLOSE.
C7_Original ==
    (/\ last.op = "init"
     /\ \/ ~last.pre.tp.ecn_ok
        \/ last.pre.sk.sk_state \in {TCP_LISTEN, TCP_CLOSE})
    => FellBack

\* C7 as amended: init falls back exactly on a connection without ECN whose
\* state is neither LISTEN nor CLOSE; on every other connection it keeps the
\* wdctcp operations and the ECT marking and sets up the DCTCP state; it never
\* takes a weight handle. The outcome is a function of ecn_ok and sk_state.
C7_Fallback ==
    last.op = "init" =>
        IF ~last.pre.tp.ecn_ok
           /\ last.pre.sk.sk_state \notin {TCP_LISTEN, TCP_CLOSE}
          THEN FellBack /\ ca = last.pre.ca /\ ~sk.inited
          ELSE /\ sk.icsk_ca_ops = "wdctcp"
               /\ sk.ect = last.pre.sk.ect
               /\ sk.inited
               /\ ca.obj = "NULL"
               /\ wp = last.pre.wp

\* C7's cases: a fallback, and a listening socket without ECN that init set up.
C7_Witness ==
    /\ last.op = "init"
    /\ ~last.pre.tp.ecn_ok
    /\ last.pre.sk.sk_state = TCP_SYN_SENT
    /\ FellBack

C7_WitnessListen ==
    /\ last.op = "init"
    /\ ~last.pre.tp.ecn_ok
    /\ last.pre.sk.sk_state = TCP_LISTEN
    /\ sk.icsk_ca_ops = "wdctcp"

Windows ==
    {0, 1, 2, 3, 10, 100, 2097152, 4194303, 4194304, 4194305,
     S32_MAX, S32_MIN, -1}

\* Initialised connections with every window above and every alpha.
InitSsthresh ==
    /\ par = par_default
    /\ sk = [sk_fresh(TCP_ESTABLISHED) EXCEPT !.inited = TRUE]
    /\ \E cwnd \in Windows, a \in 0 .. DCTCP_MAX_ALPHA :
         /\ tp = [tp_fresh(0, 0, TRUE) EXCEPT !.snd_cwnd = cwnd]
         /\ ca = [wdctcp_init_ca(par, tp, ca_fresh) EXCEPT !.dctcp_alpha = a]
    /\ out = <<>>
    /\ last = last_none
    /\ wp = wp_none
    /\ env = env_none
    /\ acc = acc_none
    /\ ref = ref_none

NextSsthresh == ssthresh

SpecSsthresh == InitSsthresh /\ [][NextSsthresh]_vars

\* (cwnd * alpha mod 2^32) >> 11 for alpha <= 1024, by 16-bit limbs of cwnd
\* in unbounded arithmetic.
ReductionByLimbs(cwnd, alpha) ==
    LET h  == IF cwnd < 0 THEN (cwnd \div 65536) + 65536 ELSE cwnd \div 65536
        l  == cwnd % 65536
        lo == l * alpha
        hi == (h * alpha + lo \div 65536) % 65536
    IN  hi * 32 + (lo % 65536) \div 2048

\* C6: ssthresh never returns less than 2, whatever the window and alpha in
\* [0, 1024], and returns max(cwnd - ((cwnd * alpha) >> 11), 2) with the
\* product taken modulo 2^32.
C6_SsthreshFloor ==
    last.op = "ssthresh" =>
        LET cwnd == last.pre.tp.snd_cwnd
            red  == ReductionByLimbs(cwnd, last.pre.ca.dctcp_alpha)
        IN  /\ ~ULt(tp.snd_ssthresh, 2)
            /\ ~ULt(cwnd, red)
            /\ tp.snd_ssthresh = UMax(Sub32(cwnd, red), 2)

\* C6's case: a window whose product with alpha wraps in 32 bits.
C6_Witness ==
    /\ last.op = "ssthresh"
    /\ last.pre.tp.snd_cwnd = 4194305
    /\ last.pre.ca.dctcp_alpha = DCTCP_MAX_ALPHA
    /\ tp.snd_ssthresh = 4194305

\* C6's case: a window of one segment is answered with the floor.
C6_WitnessFloor ==
    /\ last.op = "ssthresh"
    /\ last.pre.tp.snd_cwnd = 1
    /\ tp.snd_ssthresh = 2

\* C9 as stated: every ssthresh call records the window in force in a
\* loss_cwnd field of the congestion state, and the operations offer an
\* undo_cwnd that reads it.
C9_LossCwndSnapshot ==
    last.op = "ssthresh" =>
        /\ "loss_cwnd" \in DOMAIN ca
        /\ ca.loss_cwnd = last.pre.tp.snd_cwnd
        /\ "undo_cwnd" \in wdctcp

\* ------------------------------------------------------ window growth

\* Windows cong_avoid finds: in congestion avoidance, in slow start, with
\* credit left from before a reduction, at the clamp, and above a clamp
\* that was lowered.
GrowthStates ==
    {[snd_cwnd |-> 10, snd_cwnd_cnt |-> 0, snd_ssthresh |-> 5,
      snd_cwnd_clamp |-> 65535],
     [snd_cwnd |-> 2, snd_cwnd_cnt |-> 0, snd_ssthresh |-> 4,
      snd_cwnd_clamp |-> 65535],
     [snd_cwnd |-> 5, snd_cwnd_cnt |-> 9, snd_ssthresh |-> 4,
      snd_cwnd_clamp |-> 65535],
     [snd_cwnd |-> 10, snd_cwnd_cnt |-> 0, snd_ssthresh |-> 5,
      snd_cwnd_clamp |-> 10],
     [snd_cwnd |-> 12, snd_cwnd_cnt |-> 0, snd_ssthresh |-> 5,
      snd_cwnd_clamp |-> 10]}

\* What weight_acked_cnt holds when wdctcp_init returns: init does not write
\* it, so the zero of a new socket or what an earlier controller left there.
StaleAccum == {0, 12345, -1}

\* Values an operator may have written to wdctcp_precision.
Precisions == {wdctcp_precision_default, 100}

WithGrowth(t, g) ==
    [t EXCEPT !.snd_cwnd = g.snd_cwnd, !.snd_cwnd_cnt = g.snd_cwnd_cnt,
              !.snd_ssthresh = g.snd_ssthresh,
              !.snd_cwnd_clamp = g.snd_cwnd_clamp]

InitAI ==
    /\ \E pr \in Precisions :
         par = [par_default EXCEPT !.wdctcp_precision = pr]
    /\ sk = [sk_fresh(TCP_ESTABLISHED) EXCEPT !.inited = TRUE]
    /\ \E g \in GrowthStates :
         tp = WithGrowth(tp_fresh(0, 0, TRUE), g)
    /\ \E stale \in StaleAccum :
         ca = wdctcp_init_ca(par, tp,
                             [ca_fresh EXCEPT !.weight_acked_cnt = stale])
    /\ out = <<>>
    /\ last = last_none
    /\ wp = wp_none
    /\ env = env_none
    /\ acc = [acc_none EXCEPT !.exact = (ca.weight_acked_cnt = 0)]
    /\ ref = ref_none

NextAI == cong_avoid

SpecAI == InitAI /\ [][NextAI]_vars

\* C3: starting from an empty weight accumulator, after any sequence of
\* additive-increase calls without 32-bit overflow the credit moved into
\* snd_cwnd_cnt is the floor of (sum of weight * acked) / precision and
\* weight_acked_cnt is that sum modulo precision.
C3_CreditConserved ==
    acc.exact =>
        /\ acc.credit = acc.q
        /\ ca.weight_acked_cnt = acc.r

\* C3's case: three additive-increase calls with different weights, a
\* remainder carried across them.
C3_Witness ==
    /\ acc.exact
    /\ env.acks = 3
    /\ acc.credit >= 3
    /\ acc.r = 5000
    /\ last.op = "cong_avoid"
    /\ last.arg.weight = 15000
    /\ last.pre.ca.weight_acked_cnt = 5000

\* C10: a cong_avoid call on a connection that is not window-limited changes
\* neither snd_cwnd, snd_cwnd_cnt, snd_ssthresh nor weight_acked_cnt.
C10_NotLimitedNoUpdate ==
    (last.op = "cong_avoid" /\ ~last.arg.limited) =>
        /\ tp = last.pre.tp
        /\ ca = last.pre.ca

\* C10's case: a call that is not window-limited and would otherwise have
\* grown the window.
C10_Witness ==
    /\ last.op = "cong_avoid"
    /\ ~last.arg.limited
    /\ last.arg.acked = 2
    /\ last.arg.weight = 1073741824
    /\ ULt(last.pre.tp.snd_ssthresh, last.pre.tp.snd_cwnd)
    /\ ULt(last.pre.tp.snd_cwnd, last.pre.tp.snd_cwnd_clamp)

\* The last call was a cong_avoid that ran the additive-increase path.
RanAI == last.op = "cong_avoid" /\ last.arg.ai

\* C18: after every cong_avoid call that runs the additive-increase path
\* weight_acked_cnt is in [0, precision), whatever the weight, the acked
\* count and the value the accumulator held when init returned.
C18_AccumBelowPrecision ==
    RanAI =>
        /\ 0 <= ca.weight_acked_cnt
        /\ ca.weight_acked_cnt < par.wdctcp_precision

\* C18's case: the accumulator came into the call at or above the
\* precision, and the product wrapped on top of it.
C18_Witness ==
    /\ RanAI
    /\ last.pre.ca.weight_acked_cnt = -1
    /\ last.arg.weight = 1073741824
    /\ last.arg.left = 2
    /\ ca.weight_acked_cnt < par.wdctcp_precision

\* The segments slow start leaves over from acked: those beyond the room
\* between the window and snd_ssthresh.
SlowStartLeft ==
    LET room == last.pre.tp.snd_ssthresh - last.pre.tp.snd_cwnd
    IN  IF last.arg.acked > room THEN last.arg.acked - room ELSE 0

\* C19: a window-limited cong_avoid call that starts in slow start and
\* whose acked segments slow start consumes entirely does not run the
\* additive-increase path and leaves snd_cwnd_cnt and weight_acked_cnt
\* alone; when segments are left over the path runs on the leftover count
\* only.
C19_SlowStartFirst ==
    (/\ last.op = "cong_avoid"
     /\ last.arg.limited
     /\ last.pre.tp.snd_cwnd <= last.pre.tp.snd_ssthresh) =>
        IF SlowStartLeft = 0
          THEN /\ ~last.arg.ai
               /\ tp.snd_cwnd_cnt = last.pre.tp.snd_cwnd_cnt
               /\ ca.weight_acked_cnt = last.pre.ca.weight_acked_cnt
               /\ ca = last.pre.ca
          ELSE /\ last.arg.ai
               /\ last.arg.left = SlowStartLeft
               /\ (last.arg.weight \in 1 .. 15000
                   /\ last.pre.ca.weight_acked_cnt >= 0) =>
                     ca.weight_acked_cnt =
                         (last.pre.ca.weight_acked_cnt
                          + last.arg.weight * SlowStartLeft)
                         % par.wdctcp_precision

\* C19's case: two segments acknowledged with room for one in slow start;
\* the additive increase runs on the one left over.
C19_Witness ==
    /\ last.op = "cong_avoid"
    /\ last.arg.limited
    /\ last.arg.acked = 2
    /\ last.arg.weight = 5000
    /\ last.pre.tp.snd_cwnd + 1 = last.pre.tp.snd_ssthresh
    /\ tp.snd_cwnd = last.pre.tp.snd_ssthresh
    /\ last.arg.ai
    /\ ca.weight_acked_cnt = last.pre.ca.weight_acked_cnt + 5000

\* C19's case: slow start consumes both segments and nothing else changes.
C19_WitnessConsumed ==
    /\ last.op = "cong_avoid"
    /\ last.arg.limited
    /\ last.arg.acked = 2
    /\ tp.snd_cwnd = last.pre.tp.snd_cwnd + 2
    /\ ~last.arg.ai
    /\ ca = last.pre.ca

\* C20: after every cong_avoid call that runs the additive-increase path
\* snd_cwnd <= snd_cwnd_clamp, and a window that was within the clamp
\* before the call has not shrunk.
C20_WindowClamped ==
    RanAI =>
        /\ tp.snd_cwnd <= tp.snd_cwnd_clamp
        /\ last.pre.tp.snd_cwnd <= last.pre.tp.snd_cwnd_clamp
             => last.pre.tp.snd_cwnd <= tp.snd_cwnd

\* C20's case: the window would have grown past the clamp and was cut to it.
C20_Witness ==
    /\ RanAI
    /\ last.pre.tp.snd_cwnd = 10
    /\ last.pre.tp.snd_cwnd_clamp = 10
    /\ last.arg.weight = 1073741824
    /\ last.arg.left = 1
    /\ tp.snd_cwnd = 10
    /\ tp.snd_cwnd_cnt = 0

\* C20's case: a window above a lowered clamp is brought down to it.
C20_WitnessAbove ==
    /\ RanAI
    /\ last.pre.tp.snd_cwnd = 12
    /\ tp.snd_cwnd = 10

\* ------------------------------------------------- one batch, two ways

\* Fixed weights: half, one and a half, twice and seven times the default
\* precision.
BatchWeights == {5000, 15000, 20000, 70000}

\* Windows in congestion avoidance: the stack's initial window, a small
\* one, one with credit left from before a reduction, one near its clamp.
BatchStates ==
    {[snd_cwnd |-> 10, snd_cwnd_cnt |-> 0, snd_ssthresh |-> 5,
      snd_cwnd_clamp |-> 65535],
     [snd_cwnd |-> 3, snd_cwnd_cnt |-> 2, snd_ssthresh |-> 2,
      snd_cwnd_clamp |-> 65535],
     [snd_cwnd |-> 5, snd_cwnd_cnt |-> 9, snd_ssthresh |-> 4,
      snd_cwnd_clamp |-> 65535],
     [snd_cwnd |-> 10, snd_cwnd_cnt |-> 0, snd_ssthresh |-> 5,
      snd_cwnd_clamp |-> 11]}

\* Two connections in the same state, a batch of segments to acknowledge.
InitSplit ==
    /\ par = par_default
    /\ sk = [sk_fresh(TCP_ESTABLISHED) EXCEPT !.inited = TRUE]
    /\ \E g \in BatchStates :
         tp = WithGrowth(tp_fresh(0, 0, TRUE), g)
    /\ ca = wdctcp_init_ca(par, tp, ca_fresh)
    /\ ref = [tp |-> tp, ca |-> ca, done |-> FALSE]
    /\ \E weight \in BatchWeights, total \in 1 .. MaxBatch :
         env = [weight |-> weight, total |-> total, left |-> total,
                calls |-> 0, snd_cwnd |-> tp.snd_cwnd]
    /\ out = <<>>
    /\ last = last_none
    /\ wp = wp_none
    /\ acc = acc_none

NextSplit ==
    \/ cong_avoid_part
    \/ cong_avoid_whole

SpecSplit == InitSplit /\ [][NextSplit]_vars

\* The batch has been delivered both ways.
BatchDone == env.left = 0 /\ ref.done

\* C2 as stated: delivered as one call or in parts, the batch ends with the
\* same snd_cwnd.
C2_Original == BatchDone => tp.snd_cwnd = ref.tp.snd_cwnd

\* C2 as amended: delivered in parts, the batch leaves the same
\* weight_acked_cnt as delivered in one call and a snd_cwnd that is no
\* larger; the two windows are equal when the single call grows the window
\* by at most one segment.
C2_SplitNoLarger ==
    BatchDone =>
        /\ ca.weight_acked_cnt = ref.ca.weight_acked_cnt
        /\ ULe(tp.snd_cwnd, ref.tp.snd_cwnd)
        /\ ULe(ref.tp.snd_cwnd, env.snd_cwnd + 1)
             => tp.snd_cwnd = ref.tp.snd_cwnd

\* C2's case: the batch of the example, 15 segments at weight 20000 from a
\* window of 10, delivered in three calls ends one segment short of the
\* single call.
C2_Witness ==
    /\ BatchDone
    /\ env.total = 15
    /\ env.weight = 20000
    /\ env.calls = 3
    /\ env.snd_cwnd = 10
    /\ tp.snd_cwnd_clamp = 65535
    /\ ref.tp.snd_cwnd = 13
    /\ tp.snd_cwnd = 12

\* C2's case: a batch the single call answers with one segment, in parts.
C2_WitnessEqual ==
    /\ BatchDone
    /\ env.calls > 1
    /\ ref.tp.snd_cwnd = env.snd_cwnd + 1
    /\ tp.snd_cwnd = ref.tp.snd_cwnd

\* ------------------------------------------------- the nominal weight

\* Windows cong_avoid finds, and one large enough for a stretch ACK.
NominalStates ==
    GrowthStates \cup
    {[snd_cwnd |-> 500000, snd_cwnd_cnt |-> 0, snd_ssthresh |-> 250000,
      snd_cwnd_clamp |-> -1]}

\* Two connections in the same state, the first with weight = precision.
InitNominal ==
    /\ \E pr \in Precisions :
         par = [par_default EXCEPT !.wdctcp_precision = pr]
    /\ sk = [sk_fresh(TCP_ESTABLISHED) EXCEPT !.inited = TRUE]
    /\ \E g \in NominalStates :
         tp = WithGrowth(tp_fresh(0, 0, TRUE), g)
    /\ ca = wdctcp_init_ca(par, tp, ca_fresh)
    /\ ref = [tp |-> tp]
    /\ env = [acks |-> 0, fits |-> TRUE]
    /\ out = <<>>
    /\ last = last_none
    /\ wp = wp_none
    /\ acc = acc_none

NextNominal == cong_avoid_nominal

SpecNominal == InitNominal /\ [][NextNominal]_vars

\* C12 as stated: with weight = precision and an empty accumulator at the
\* start, every sequence of cong_avoid calls leaves the snd_cwnd and
\* snd_cwnd_cnt the Reno additive increase leaves.
C12_Original ==
    /\ tp.snd_cwnd = ref.tp.snd_cwnd
    /\ tp.snd_cwnd_cnt = ref.tp.snd_cwnd_cnt

\* C12's original fails on a stretch ACK of 429497 segments in a window of
\* 500000 at the default precision.
C12_StretchAck ==
    /\ ~env.fits
    /\ par.wdctcp_precision = wdctcp_precision_default
    /\ last.pre.tp.snd_cwnd = 500000
    /\ tp.snd_cwnd_cnt # ref.tp.snd_cwnd_cnt

\* C12 as amended: with weight = precision and an empty accumulator at the
\* start, every sequence of cong_avoid calls in which precision * acked fits
\* in 32 bits leaves the snd_cwnd and snd_cwnd_cnt the Reno additive increase
\* leaves, and an empty accumulator.
C12_NominalIsReno ==
    env.fits =>
        /\ tp = ref.tp
        /\ ca.weight_acked_cnt = 0

\* C12's case: three calls that fit, the last of them growing the window by
\* additive increase.
C12_Witness ==
    /\ env.fits
    /\ env.acks = 3
    /\ last.arg.limited
    /\ last.arg.acked = 3
    /\ ULt(last.pre.tp.snd_ssthresh, last.pre.tp.snd_cwnd)
    /\ ULt(last.pre.tp.snd_cwnd, tp.snd_cwnd)
    /\ tp.snd_cwnd_cnt > 0

\* ------------------------------------------------ the alpha estimator

\* Values an operator may have written to dctcp_shift_g.
ShiftG == {dctcp_shift_g_default, 1, 10}

\* Estimates an observation window starts with.
Alphas == {0, 15, 512, DCTCP_MAX_ALPHA}

\* Bytes counted so far in the window: none, those of the worked example,
\* and enough marked bytes for the scaling shift to leave 32 bits.
EpochCounters ==
    {[acked_bytes_ecn |-> 0, acked_bytes_total |-> 0],
     [acked_bytes_ecn |-> 5000, acked_bytes_total |-> 10000],
     [acked_bytes_ecn |-> 67108864 + 5000, acked_bytes_total |-> 100000000]}

\* Sequence numbers: zero, just below the wrap of 2^32 and just below 2^31.
EpochSeqs == {0, Neg32(SegBytes), S32_MAX - SegBytes + 1}

\* Initialised connections part-way through an observation window.
InitAlpha ==
    /\ \E g \in ShiftG :
         par = [par_default EXCEPT !.dctcp_shift_g = g]
    /\ sk = [sk_fresh(TCP_ESTABLISHED) EXCEPT !.inited = TRUE]
    /\ \E iss \in EpochSeqs :
         tp = tp_fresh(iss, 0, TRUE)
    /\ \E a \in Alphas, n \in EpochCounters :
         ca = [wdctcp_init_ca(par, tp, ca_fresh) EXCEPT
                 !.dctcp_alpha = a,
                 !.acked_bytes_ecn = n.acked_bytes_ecn,
                 !.acked_bytes_total = n.acked_bytes_total]
    /\ out = <<>>
    /\ last = last_none
    /\ wp = wp_none
    /\ env = env_none
    /\ acc = acc_none
    /\ ref = ref_none

NextAlpha ==
    \/ in_ack_event
    \/ tcp_xmit

SpecAlpha == InitAlpha /\ [][NextAlpha]_vars

\* Whether sequence number a has reached or passed b: the distance a - b
\* modulo 2^32, by 16-bit limbs, is below 2^31.
SeqReached(a, b) ==
    LET borrow == IF a % 65536 < b % 65536 THEN 1 ELSE 0
    IN  ((a \div 65536) - (b \div 65536) - borrow) % 65536 < 32768

\* The bytes an ACK counts for: those it newly acknowledges, one receive MSS
\* for a duplicate ACK, nothing for a window update that acknowledges nothing.
CountedBytes ==
    IF last.arg.acked > 0 THEN last.arg.acked
    ELSE IF CA_ACK_WIN_UPDATE \in last.arg.flags THEN 0
    ELSE last.pre.sk.rcv_mss

CountedEcn == IF CA_ACK_ECE \in last.arg.flags THEN CountedBytes ELSE 0

\* min(1024, alpha - (alpha >> g) + (ecn << (10 - g)) / T) for ecn <= total
\* below 2^30, with T = 1 for total = 0 and the shift taken modulo 2^32, in
\* unbounded arithmetic.
ExpectedAlpha(alpha, g, ecn, total) ==
    LET sh   == 10 - g
        T    == IF total = 0 THEN 1 ELSE total
        half == IF sh = 0 THEN 0 ELSE (ecn % (2 ^ (32 - sh))) * (2 ^ (sh - 1))
        F    == IF sh = 0 THEN ecn \div T
                ELSE 2 * (half \div T) + ((2 * (half % T)) \div T)
        a    == alpha - (alpha \div (2 ^ g)) + F
    IN  IF a > 1024 THEN 1024 ELSE a

\* The last call was an in_ack_event that found the window ended.
EpochEnded ==
    /\ last.op = "in_ack_event"
    /\ SeqReached(tp.snd_una, last.pre.ca.next_seq)

\* C13: an in_ack_event that ends the observation window stores
\* alpha = min(1024, alpha - (alpha >> g) + (acked_bytes_ecn << (10 - g)) / T)
\* over the bytes counted up to and including this ACK, T being
\* acked_bytes_total, or 1 when that is 0.
C13_AlphaUpdate ==
    EpochEnded =>
        ca.dctcp_alpha =
            ExpectedAlpha(last.pre.ca.dctcp_alpha, par.dctcp_shift_g,
                          last.pre.ca.acked_bytes_ecn + CountedEcn,
                          last.pre.ca.acked_bytes_total + CountedBytes)

\* C13's case: the worked example, alpha = 1024, g = 4, 5000 marked bytes
\* of 10000, gives 992.
C13_Witness ==
    /\ EpochEnded
    /\ par.dctcp_shift_g = 4
    /\ last.pre.ca.dctcp_alpha = 1024
    /\ last.pre.ca.acked_bytes_ecn = 5000
    /\ last.pre.ca.acked_bytes_total = 10000
    /\ CountedBytes = 0
    /\ ca.dctcp_alpha = 992

\* C13's case: the window ends with no byte counted and T is taken as 1.
C13_WitnessNoBytes ==
    /\ EpochEnded
    /\ last.pre.ca.acked_bytes_total = 0
    /\ CountedBytes = 0
    /\ last.pre.ca.dctcp_alpha = 960
    /\ ca.dctcp_alpha = 900

\* C14: in_ack_event ends the observation window if and only if snd_una
\* has reached or passed next_seq in wrap-around sequence arithmetic: when
\* it has not, alpha and next_seq are as before the call; when it has, the
\* call ends with both byte counters at 0 and next_seq at snd_nxt.
C14_EpochEnd ==
    last.op = "in_ack_event" =>
        IF SeqReached(tp.snd_una, last.pre.ca.next_seq)
          THEN /\ ca.acked_bytes_ecn = 0
               /\ ca.acked_bytes_total = 0
               /\ ca.next_seq = tp.snd_nxt
          ELSE /\ ca.dctcp_alpha = last.pre.ca.dctcp_alpha
               /\ ca.next_seq = last.pre.ca.next_seq

\* C14's case: next_seq has wrapped past zero and snd_una has not; the
\* window stays open and the bytes stay counted.
C14_Witness ==
    /\ last.op = "in_ack_event"
    /\ last.pre.ca.next_seq = 0
    /\ tp.snd_una = Neg32(SegBytes)
    /\ ca.next_seq = 0
    /\ ca.acked_bytes_total = SegBytes

\* C14's case: a window that ends with data in flight; next_seq moves to the
\* send frontier ahead of snd_una.
C14_WitnessEnded ==
    /\ EpochEnded
    /\ tp.snd_nxt # tp.snd_una
    /\ last.pre.ca.next_seq = tp.snd_una
    /\ ca.next_seq = tp.snd_nxt
    /\ last.pre.ca.acked_bytes_total > 0

\* C15: in_ack_event counts the bytes an ACK newly acknowledges, one receive
\* MSS for an ACK that acknowledges nothing and is no window update, and
\* nothing for a window update that acknowledges nothing; it adds the count
\* to acked_bytes_total, and to acked_bytes_ecn if and only if the ACK has
\* ECE; prior_snd_una follows snd_una.
C15_AckAccounting ==
    last.op = "in_ack_event" =>
        /\ last.arg.acked > 0 => ca.prior_snd_una = tp.snd_una
        /\ CountedBytes = 0 => ca.prior_snd_una = last.pre.ca.prior_snd_una
        /\ ~EpochEnded =>
             /\ ca.acked_bytes_total =
                    last.pre.ca.acked_bytes_total + CountedBytes
             /\ ca.acked_bytes_ecn =
                    last.pre.ca.acked_bytes_ecn + CountedEcn

\* C15's case: a duplicate ACK with ECE inside the window counts one MSS
\* as marked.
C15_Witness ==
    /\ last.op = "in_ack_event"
    /\ ~EpochEnded
    /\ last.arg.acked = 0
    /\ last.arg.flags = {CA_ACK_ECE}
    /\ ca.acked_bytes_ecn = last.pre.ca.acked_bytes_ecn + last.pre.sk.rcv_mss
    /\ ca.acked_bytes_total = last.pre.ca.acked_bytes_total + last.pre.sk.rcv_mss

\* C15's case: a window update that acknowledges nothing counts nothing.
C15_WitnessWindowUpdate ==
    /\ last.op = "in_ack_event"
    /\ ~EpochEnded
    /\ last.arg.acked = 0
    /\ last.arg.flags = {CA_ACK_ECE, CA_ACK_WIN_UPDATE}
    /\ ca = last.pre.ca

\* ------------------------------------------- a long observation window

\* The most duplicate ACKs of one receive MSS whose bytes fit in a 32-bit
\* counter.
FullCount == Div32(-1, SegBytes)

\* Duplicate ACKs an observation window has counted so far, as <<all of
\* them, those with ECE>>: none, a few, and as many as fit in 32 bits with
\* all, all but one or none of them marked.
DupAcks ==
    {<<0, 0>>, <<10, 5>>, <<FullCount, FullCount>>,
     <<FullCount, FullCount - 1>>, <<FullCount, 0>>}

\* Congestion control switched to wdctcp with one segment in flight, then
\* duplicate ACKs only: snd_una has not moved and the window is still open.
InitLongEpoch ==
    /\ \E g \in ShiftG :
         par = [par_default EXCEPT !.dctcp_shift_g = g]
    /\ sk = [sk_fresh(TCP_ESTABLISHED) EXCEPT !.inited = TRUE]
    /\ \E iss \in EpochSeqs :
         tp = [tp_fresh(iss, 0, TRUE) EXCEPT !.snd_nxt = Add32(iss, SegBytes)]
    /\ \E a \in Alphas, n \in DupAcks :
         ca = [wdctcp_init_ca(par, tp, ca_fresh) EXCEPT
                 !.dctcp_alpha = a,
                 !.acked_bytes_total = Mul32(n[1], sk.rcv_mss),
                 !.acked_bytes_ecn = Mul32(n[2], sk.rcv_mss)]
    /\ out = <<>>
    /\ last = last_none
    /\ wp = wp_none
    /\ env = env_none
    /\ acc = acc_none
    /\ ref = ref_none

NextLongEpoch ==
    \/ in_ack_event
    \/ tcp_xmit

SpecLongEpoch == InitLongEpoch /\ [][NextLongEpoch]_vars

\* a <= b for two 32-bit counters read as unsigned numbers, by 16-bit limbs.
CounterLe(a, b) ==
    LET ah == (a \div 65536) % 65536
        bh == (b \div 65536) % 65536
    IN  ah < bh \/ (ah = bh /\ a % 65536 <= b % 65536)

\* C21: in every state reached from init through in_ack_event calls
\* acked_bytes_ecn <= acked_bytes_total, also when the 32-bit counters come
\* near their wrap within one observation window.
C21_EcnWithinTotal ==
    CounterLe(ca.acked_bytes_ecn, ca.acked_bytes_total)

\* The ACK that takes acked_bytes_total past 2^32: the window stays open,
\* the total starts again from a small number and the marked count does not.
C21_TotalWrapped ==
    /\ last.op = "in_ack_event"
    /\ ~EpochEnded
    /\ last.arg.acked = 0
    /\ last.arg.flags = {}
    /\ CounterLe(last.pre.ca.acked_bytes_ecn, last.pre.ca.acked_bytes_total)
    /\ ca.acked_bytes_total < last.pre.sk.rcv_mss
    /\ ca.acked_bytes_total >= 0
    /\ ca.acked_bytes_ecn = last.pre.ca.acked_bytes_ecn
    /\ ~CounterLe(ca.acked_bytes_ecn, ca.acked_bytes_total)

\* Short of the wrap the order holds: an ACK that leaves the window open
\* and does not take acked_bytes_total past 2^32 keeps acked_bytes_ecn <=
\* acked_bytes_total, and an ACK that ends the window leaves both at zero.
EcnWithinTotalUnwrapped ==
    last.op = "in_ack_event" =>
        /\ EpochEnded =>
             ca.acked_bytes_ecn = 0 /\ ca.acked_bytes_total = 0
        /\ (/\ ~EpochEnded
            /\ CounterLe(last.pre.ca.acked_bytes_ecn,
                         last.pre.ca.acked_bytes_total)
            /\ CounterLe(last.pre.ca.acked_bytes_total,
                         ca.acked_bytes_total))
             => CounterLe(ca.acked_bytes_ecn, ca.acked_bytes_total)

\* ------------------------------------------------- credit left banked

\* The window was at least one segment and within its clamp when the last
\* call was entered.
EnteredWithinClamp ==
    /\ 1 <= last.pre.tp.snd_cwnd
    /\ last.pre.tp.snd_cwnd <= last.pre.tp.snd_cwnd_clamp

\* C22: after every cong_avoid call that runs the additive-increase path
\* on a window of at least one segment and within its clamp on entry,
\* snd_cwnd_cnt < snd_cwnd: whole windows of credit have become growth and
\* only the remainder stays banked.
C22_CreditBelowWindow ==
    (RanAI /\ EnteredWithinClamp) =>
        /\ 0 <= tp.snd_cwnd_cnt
        /\ tp.snd_cwnd_cnt < tp.snd_cwnd

\* C22's case: one call banks several windows of credit; the window grows
\* by more than one segment and a remainder stays.
C22_Witness ==
    /\ RanAI
    /\ EnteredWithinClamp
    /\ last.pre.tp.snd_cwnd = 10
    /\ last.pre.tp.snd_cwnd_clamp = 65535
    /\ last.arg.weight = 15000
    /\ par.wdctcp_precision = 100
    /\ last.arg.left = 1
    /\ tp.snd_cwnd >= last.pre.tp.snd_cwnd + 15
    /\ tp.snd_cwnd_cnt > 0

\* C22's case: credit banked at a larger window is at or above the window
\* on entry; the call starts it again from zero.
C22_WitnessStale ==
    /\ RanAI
    /\ EnteredWithinClamp
    /\ last.pre.tp.snd_cwnd_cnt >= last.pre.tp.snd_cwnd
    /\ last.arg.left = 1
    /\ last.arg.weight = 5000
    /\ tp.snd_cwnd = last.pre.tp.snd_cwnd + 1
    /\ tp.snd_cwnd_cnt < last.pre.tp.snd_cwnd_cnt

\* Outside C22's precondition: a window above a lowered clamp is cut to the
\* clamp and the credit banked against the old window can reach it.
CreditAtCutWindow ==
    /\ RanAI
    /\ ~EnteredWithinClamp
    /\ tp.snd_cwnd_cnt >= tp.snd_cwnd

====
